---------------------------- MODULE Spec2Model ----------------------------
(***************************************************************************)
(* Model of BiasAwareUserCF/main.cpp: a batch run that ingests training    *)
(* ratings, fits a global mean and user/item biases, projects residuals,   *)
(* accumulates pairwise dot products, keeps a bounded heap of neighbours   *)
(* per user and answers (user, item) queries.                              *)
(*                                                                         *)
(* Reals (C++ double) are represented in fixed point: the integer v stands *)
(* for v / SCALE.  Products and quotients are rounded to the nearest unit. *)
(***************************************************************************)
EXTENDS Integers, Sequences, FiniteSets

VARIABLES pc, ratingsByUsers, globalSum, globalCount, maxUserId, maxItemId,
          userOrder, itemOrder, globalMean, userBias, itemBias, itemToUser,
          dotAB, magnitudeMap, topNeighbors, candidates, todo, curA,
          numQueries, lastQuery, baseline, prediction

vars == <<pc, ratingsByUsers, globalSum, globalCount, maxUserId, maxItemId,
          userOrder, itemOrder, globalMean, userBias, itemBias, itemToUser,
          dotAB, magnitudeMap, topNeighbors, candidates, todo, curA,
          numQueries, lastQuery, baseline, prediction>>

---------------------------------------------------------------------------
(* Bounds of the model *)

\* user ids that occur in the input are 1..MaxUser
MaxUser == 3
\* item ids that occur in the training input are 0..MaxItem
MaxItem == 2
\* number of training lines read before the "test dataset" sentinel
MaxTrain == 4
\* number of query lines processed
MaxQueries == 1
\* main.cpp:33 sets K = 190; the model keeps the heap bound small enough
\* for evictions to happen among MaxUser users
K == 1

(* Program constants, main.cpp:34-40, in fixed point where they are reals *)
SCALE == 10 * 10 * 10
SHRINK == 10
NUM_ITERS == 8
ALPHA == 10
REG == 20
DEFAULT_MEAN == 3500

Users == 1..MaxUser
Items == 0..MaxItem
Ratings == {1 * SCALE, 5 * SCALE}

---------------------------------------------------------------------------
(* Fixed-point arithmetic standing for double arithmetic *)

\* a / b rounded to the nearest integer, b > 0
RDiv(a, b) == (2 * a + b) \div (2 * b)

\* x * y on doubles
FMul(x, y) == RDiv(x * y, SCALE)

\* x / y on doubles, y > 0
FDiv(x, y) == RDiv(x * SCALE, y)

Abs(x) == IF x < 0 THEN -x ELSE x

RECURSIVE IsqrtIter(_, _, _)
IsqrtIter(n, lo, hi) ==
    IF lo >= hi THEN lo
    ELSE LET mid == (lo + hi + 1) \div 2
         IN IF mid * mid <= n THEN IsqrtIter(n, mid, hi)
            ELSE IsqrtIter(n, lo, mid - 1)

\* sqrt(x) on doubles, x >= 0
Sqrt(x) == IsqrtIter(x * SCALE, 0, 46340)

\* pow(x, AMP_FACTOR) with AMP_FACTOR = 1.3, x >= 0: tabulated at steps of
\* 0.1 and interpolated linearly in between
PowTable == <<0, 50, 123, 209, 304, 406, 515, 629, 748, 872, 1000>>
PowAmp(x) ==
    LET lo == IF x \div 100 > 9 THEN 9 ELSE x \div 100
    IN PowTable[lo + 1]
         + RDiv((PowTable[lo + 2] - PowTable[lo + 1]) * (x - 100 * lo), 100)

\* Raw cosine similarity
cosineSimilarity(dotProduct, magA, magB) ==
    IF magA = 0 \/ magB = 0 THEN 0
    ELSE FDiv(dotProduct, FMul(Sqrt(magA), Sqrt(magB)))

---------------------------------------------------------------------------
(* Generic helpers on finite maps, sets and sequences *)

\* the sequences that enumerate the finite set S once each: the orders in
\* which an unordered_map holding the keys S can be traversed
Orders(S) ==
    {s \in [1..Cardinality(S) -> S] :
        \A i, j \in 1..Cardinality(S) : i # j => s[i] # s[j]}

RECURSIVE SumSet(_, _)
SumSet(S, f) ==
    IF S = {} THEN 0
    ELSE LET x == CHOOSE y \in S : TRUE
         IN f[x] + SumSet(S \ {x}, f)

\* m[k] for std::unordered_map / std::map: the map with key k present,
\* value-initialised to d when it was absent
Touch(m, k, d) ==
    IF k \in DOMAIN m THEN m
    ELSE [x \in DOMAIN m \cup {k} |-> IF x = k THEN d ELSE m[x]]

\* m[k] = v
Put(m, k, v) == [x \in DOMAIN m \cup {k} |-> IF x = k THEN v ELSE m[x]]

EmptyMap == [x \in {} |-> 0]

---------------------------------------------------------------------------
(* Initial state: main() before the first line is read *)

Init ==
    /\ pc = "read"
    /\ ratingsByUsers = EmptyMap
    /\ globalSum = 0
    /\ globalCount = 0
    /\ maxUserId = 0
    /\ maxItemId = 0
    /\ userOrder = <<>>
    /\ itemOrder = EmptyMap
    /\ globalMean = 0
    /\ userBias = EmptyMap
    /\ itemBias = EmptyMap
    /\ itemToUser = EmptyMap
    /\ dotAB = EmptyMap
    /\ magnitudeMap = EmptyMap
    /\ topNeighbors = EmptyMap
    /\ candidates = EmptyMap
    /\ todo = {}
    /\ curA = 0
    /\ numQueries = 0
    /\ lastQuery = <<0, 0>>
    /\ baseline = 0
    /\ prediction = 0

---------------------------------------------------------------------------
(* Step 1: one training line "userId itemId rating" *)

ReadRating(userId, itemId, rating) ==
    /\ pc = "read"
    /\ globalCount < MaxTrain
    /\ ratingsByUsers' =
          Put(ratingsByUsers, userId,
              Put(Touch(ratingsByUsers, userId, EmptyMap)[userId], itemId, rating))
    /\ globalSum' = globalSum + rating
    /\ globalCount' = globalCount + 1
    /\ maxUserId' = IF userId > maxUserId THEN userId ELSE maxUserId
    /\ maxItemId' = IF itemId > maxItemId THEN itemId ELSE maxItemId
    /\ UNCHANGED <<pc, userOrder, itemOrder, globalMean, userBias, itemBias,
                   itemToUser, dotAB, magnitudeMap, topNeighbors, candidates,
                   todo, curA, numQueries, lastQuery, baseline, prediction>>

(* Step 1 ends: the "test dataset" line, or end of input.  From here on the
   rating store is not written by steps 2-7, so the order in which its
   unordered_maps are traversed is fixed, and unspecified: any order of the
   users, and for each user any order of the items. *)
EndTrain ==
    /\ pc = "read"
    /\ pc' = "mean"
    /\ userOrder' \in Orders(DOMAIN ratingsByUsers)
    /\ itemOrder' \in [DOMAIN ratingsByUsers -> UNION {Orders(DOMAIN ratingsByUsers[u]) : u \in DOMAIN ratingsByUsers}]
    /\ \A u \in DOMAIN ratingsByUsers : itemOrder'[u] \in Orders(DOMAIN ratingsByUsers[u])
    /\ UNCHANGED <<ratingsByUsers, globalSum, globalCount, maxUserId, maxItemId,
                   globalMean, userBias, itemBias, itemToUser, dotAB,
                   magnitudeMap, topNeighbors, candidates, todo, curA,
                   numQueries, lastQuery, baseline, prediction>>

\* the (user, item) cells of the store in traversal order: the nested loops
\* "for uPair in ratingsByUsers, for mPair in uPair.second"
RECURSIVE Traversal(_, _)
Traversal(uo, io) ==
    IF uo = <<>> THEN <<>>
    ELSE [k \in 1..Len(io[Head(uo)]) |-> <<Head(uo), io[Head(uo)][k]>>]
           \o Traversal(Tail(uo), io)

---------------------------------------------------------------------------
(* Steps 2 and 3: global mean, zero biases *)

\* GlobalMeanOf with the fault "the empty-training default is lost"
GlobalMeanNoDefault(sum, count) ==
    IF count > 0 THEN RDiv(sum, count) ELSE 0

GlobalMeanOf(sum, count) ==
    IF count > 0 THEN RDiv(sum, count) ELSE DEFAULT_MEAN

InitBiases ==
    /\ pc = "mean"
    /\ pc' = "fit"
    /\ globalMean' = GlobalMeanOf(globalSum, globalCount)
    /\ userBias' = [u \in DOMAIN ratingsByUsers |-> 0]
    /\ itemBias' = [i \in 0..maxItemId |-> 0]
    /\ UNCHANGED <<ratingsByUsers, globalSum, globalCount, maxUserId, maxItemId,
                   userOrder, itemOrder, itemToUser, dotAB, magnitudeMap,
                   topNeighbors, candidates, todo, curA, numQueries,
                   lastQuery, baseline, prediction>>

---------------------------------------------------------------------------
(* Step 4: NUM_ITERS passes of in-place gradient updates *)

\* one rating's update; b = [ub |-> userBias, ib |-> itemBias]
GradientUpdate(b, mean, u, i, r) ==
    LET bu == b.ub[u]
        bi == b.ib[i]
        pred == mean + bu + bi
        err == r - pred
    IN [ub |-> [b.ub EXCEPT ![u] = bu + FMul(ALPHA, err - FMul(REG, bu))],
        ib |-> [b.ib EXCEPT ![i] = bi + FMul(ALPHA, err - FMul(REG, bi))]]

RECURSIVE FitPass(_, _, _, _)
FitPass(b, mean, store, cells) ==
    IF cells = <<>> THEN b
    ELSE LET u == Head(cells)[1]
             i == Head(cells)[2]
         IN FitPass(GradientUpdate(b, mean, u, i, store[u][i]), mean, store,
                    Tail(cells))

RECURSIVE FitIters(_, _, _, _, _)
FitIters(b, mean, store, cells, iters) ==
    IF iters = 0 THEN b
    ELSE FitIters(FitPass(b, mean, store, cells), mean, store, cells, iters - 1)

FitBiases ==
    /\ pc = "fit"
    /\ pc' = "project"
    /\ LET b == FitIters([ub |-> userBias, ib |-> itemBias], globalMean,
                         ratingsByUsers,
                         Traversal(userOrder, itemOrder),
                         NUM_ITERS)
       IN /\ userBias' = b.ub
          /\ itemBias' = b.ib
    /\ UNCHANGED <<ratingsByUsers, globalSum, globalCount, maxUserId, maxItemId,
                   userOrder, itemOrder, globalMean, itemToUser, dotAB,
                   magnitudeMap, topNeighbors, candidates, todo, curA,
                   numQueries, lastQuery, baseline, prediction>>

---------------------------------------------------------------------------
(* Step 5: item -> list of (user, residual), with the fitted biases *)

Residual(store, mean, ub, ib, u, i) == store[u][i] - (mean + ub[u] + ib[i])

ItemList(store, mean, ub, ib, cells, i) ==
    LET mine == SelectSeq(cells, LAMBDA c : c[2] = i)
    IN [k \in 1..Len(mine) |->
           <<mine[k][1], Residual(store, mean, ub, ib, mine[k][1], i)>>]

BuildItemToUser ==
    /\ pc = "project"
    /\ pc' = "dot"
    /\ itemToUser' =
          [i \in 0..maxItemId |->
              ItemList(ratingsByUsers, globalMean, userBias, itemBias,
                       Traversal(userOrder, itemOrder), i)]
    /\ UNCHANGED <<ratingsByUsers, globalSum, globalCount, maxUserId, maxItemId,
                   userOrder, itemOrder, globalMean, userBias, itemBias, dotAB,
                   magnitudeMap, topNeighbors, candidates, todo, curA,
                   numQueries, lastQuery, baseline, prediction>>

---------------------------------------------------------------------------
(* Step 6: magnitudes and pairwise dot products *)

\* the first item id both loops of step 6 visit: "for (int i = 1; ..."
FirstItem == 1

RECURSIVE MagList(_, _)
MagList(m, list) ==
    IF list = <<>> THEN m
    ELSE LET u == Head(list)[1]
             res == Head(list)[2]
             m1 == Touch(m, u, 0)
         IN MagList([m1 EXCEPT ![u] = @ + FMul(res, res)], Tail(list))

RECURSIVE Magnitudes(_, _, _, _)
Magnitudes(m, lists, i, maxItem) ==
    IF i > maxItem THEN m
    ELSE Magnitudes(MagList(m, lists[i]), lists, i + 1, maxItem)

\* dotAB[uA][uB] after "sum += rA * rB; count += 1", keyed by <<uA, uB>>
DotAdd(d, uA, uB, rA, rB) ==
    LET lo == IF uA > uB THEN uB ELSE uA
        hi == IF uA > uB THEN uA ELSE uB
        d1 == Touch(d, <<lo, hi>>, [sum |-> 0, count |-> 0])
    IN [d1 EXCEPT ![<<lo, hi>>] =
           [sum |-> @.sum + FMul(rA, rB), count |-> @.count + 1]]

RECURSIVE DotList(_, _, _, _)
DotList(d, listU, a, b) ==
    IF a > Len(listU) THEN d
    ELSE IF b > Len(listU) THEN DotList(d, listU, a + 1, a + 2)
    ELSE DotList(DotAdd(d, listU[a][1], listU[b][1], listU[a][2], listU[b][2]),
                 listU, a, b + 1)

RECURSIVE Dots(_, _, _, _)
Dots(d, lists, i, maxItem) ==
    IF i > maxItem THEN d
    ELSE Dots(DotList(d, lists[i], 1, 2), lists, i + 1, maxItem)

ComputeDots ==
    /\ pc = "dot"
    /\ pc' = "select"
    /\ magnitudeMap' = Magnitudes(EmptyMap, itemToUser, FirstItem, maxItemId)
    /\ dotAB' = Dots(EmptyMap, itemToUser, FirstItem, maxItemId)
    /\ todo' = DOMAIN dotAB'
    /\ curA' = 0
    /\ UNCHANGED <<ratingsByUsers, globalSum, globalCount, maxUserId, maxItemId,
                   userOrder, itemOrder, globalMean, userBias, itemBias,
                   itemToUser, topNeighbors, candidates, numQueries, lastQuery,
                   baseline, prediction>>

---------------------------------------------------------------------------
(* Step 7: bounded neighbour heaps *)

\* finalSim of one accumulated pair; 0 when the pair is skipped by
\* "if (rawSim <= 0.0) continue"
FinalSim(d, magA, magB) ==
    LET rawSim == cosineSimilarity(d.sum, magA, magB)
        factor == RDiv(d.count * SCALE, d.count + SHRINK)
        ampSim == IF rawSim < 0 THEN -PowAmp(Abs(rawSim)) ELSE PowAmp(Abs(rawSim))
    IN IF rawSim <= 0 THEN 0 ELSE FMul(ampSim, factor)

\* Similarity::operator<
SimLess(x, y) == x.value < y.value

\* the elements priority_queue::top() can return: those no element is
\* greater than.  Which one among equals is left to the heap algorithm.
Tops(pq) == {x \in pq : \A y \in pq : ~SimLess(x, y)}

\* PushPop with the fault "the size test is off by one: > K + 1"
PushPopLate(pq, e) ==
    LET pushed == pq \cup {e}
    IN IF Cardinality(pushed) > K + 1
       THEN {pushed \ {t} : t \in Tops(pushed)}
       ELSE {pushed}

\* the heaps that "pq.push(e); if ((int)pq.size() > K) pq.pop();" can leave
PushPop(pq, e) ==
    LET pushed == pq \cup {e}
    IN IF Cardinality(pushed) > K
       THEN {pushed \ {t} : t \in Tops(pushed)}
       ELSE {pushed}

\* Register with the fault "the block For uB is missing"
RegisterOneSided(top, cand, uA, uB, finalSim) ==
    LET eA == [userB |-> uB, value |-> finalSim]
        topA == Touch(top, uA, {})
    IN {[top |-> Put(topA, uA, pqA),
         cand |-> Put(cand, uA, Touch(cand, uA, {})[uA] \cup {eA})]
          : pqA \in PushPop(topA[uA], eA)}

\* lines 209-226: the outcomes [top, cand] of registering finalSim for uA
\* and for uB; cand records every entry ever pushed
Register(top, cand, uA, uB, finalSim) ==
    LET eA == [userB |-> uB, value |-> finalSim]
        eB == [userB |-> uA, value |-> finalSim]
        topA == Touch(top, uA, {})
        candA == Put(cand, uA, Touch(cand, uA, {})[uA] \cup {eA})
    IN UNION {
         LET top1 == Touch(Put(topA, uA, pqA), uB, {})
         IN {[top |-> Put(top1, uB, pqB),
              cand |-> Put(candA, uB, Touch(candA, uB, {})[uB] \cup {eB})]
               : pqB \in PushPop(top1[uB], eB)}
         : pqA \in PushPop(topA[uA], eA)}

\* one iteration of the inner loop of step 7, for the accumulator entry p.
\* The outer loop finishes the entries of one uA before moving on; the
\* order of the keys is left to the unordered_maps.
SelectPair(p) ==
    /\ pc = "select"
    /\ p \in todo
    /\ (\E q \in todo : q[1] = curA) => p[1] = curA
    /\ LET uA == p[1]
           uB == p[2]
           mags == Touch(Touch(magnitudeMap, uA, 0), uB, 0)
           finalSim == FinalSim(dotAB[p], mags[uA], mags[uB])
       IN /\ magnitudeMap' = mags
          /\ IF finalSim > 0
             THEN \E r \in Register(topNeighbors, candidates, uA, uB, finalSim) :
                     /\ topNeighbors' = r.top
                     /\ candidates' = r.cand
             ELSE UNCHANGED <<topNeighbors, candidates>>
    /\ todo' = todo \ {p}
    /\ curA' = p[1]
    /\ UNCHANGED <<pc, ratingsByUsers, globalSum, globalCount, maxUserId,
                   maxItemId, userOrder, itemOrder, globalMean, userBias,
                   itemBias, itemToUser, dotAB, numQueries, lastQuery,
                   baseline, prediction>>

\* the loops of step 7 end
EndSelect ==
    /\ pc = "select"
    /\ todo = {}
    /\ pc' = "query"
    /\ UNCHANGED <<ratingsByUsers, globalSum, globalCount, maxUserId, maxItemId,
                   userOrder, itemOrder, globalMean, userBias, itemBias,
                   itemToUser, dotAB, magnitudeMap, topNeighbors, candidates,
                   todo, curA, numQueries, lastQuery, baseline, prediction>>

---------------------------------------------------------------------------
(* Step 8: one query line "userId itemId" *)

\* m after m[k] has been evaluated for every k in keys
TouchAll(m, keys, d) ==
    [x \in DOMAIN m \cup keys |-> IF x \in DOMAIN m THEN m[x] ELSE d]

\* "if (itemId >= 1 && itemId <= maxItemId) ... += itemBias[itemId]"
ItemBiasTerm(ib, maxItem, itemId) ==
    IF itemId >= 1 /\ itemId <= maxItem THEN ib[itemId] ELSE 0

\* "if (userBias.find(userId) != userBias.end()) baseline += userBias[userId]"
UserBiasTerm(ub, userId) ==
    IF userId \in DOMAIN ub THEN ub[userId] ELSE 0

Baseline(mean, ub, ib, maxItem, userId, itemId) ==
    mean + UserBiasTerm(ub, userId) + ItemBiasTerm(ib, maxItem, itemId)

\* the entries of the copied heap, all of which the while loop pops
NeighborsOf(top, userId) ==
    IF userId \in DOMAIN top THEN top[userId] ELSE {}

\* the prediction lines 237-278 compute
Predict(store, mean, ub, ib, maxItem, top, userId, itemId) ==
    LET entries == NeighborsOf(top, userId)
        store1 == TouchAll(store, {e.userB : e \in entries}, EmptyMap)
        voters == {e \in entries : itemId \in DOMAIN store1[e.userB]}
        ub1 == TouchAll(ub, {e.userB : e \in voters}, 0)
        term == [e \in voters |->
                   LET nr == store1[e.userB][itemId]
                       nb == mean + ub1[e.userB] + ItemBiasTerm(ib, maxItem, itemId)
                   IN FMul(nr - nb, e.value)]
        weightedSum == SumSet(voters, term)
        sumOfWeights == SumSet(voters, [e \in voters |-> Abs(e.value)])
        base == Baseline(mean, ub, ib, maxItem, userId, itemId)
    IN IF sumOfWeights > 0
       THEN base + FDiv(weightedSum, sumOfWeights)
       ELSE base

\* the maps after the lookups of one query: find() leaves a map alone,
\* operator[] inserts a missing key
StoreAfterQuery(store, top, userId) ==
    TouchAll(store, {e.userB : e \in NeighborsOf(top, userId)}, EmptyMap)

\* UserBiasAfterQuery with the fault "baseline += userBias[userId] is not
\* guarded by find()"
UserBiasNoFind(store, ub, top, userId, itemId) ==
    TouchAll(ub, {userId}, 0)

UserBiasAfterQuery(store, ub, top, userId, itemId) ==
    TouchAll(ub,
             {e.userB : e \in {x \in NeighborsOf(top, userId) :
                 itemId \in DOMAIN StoreAfterQuery(store, top, userId)[x.userB]}},
             0)

Query(userId, itemId) ==
    /\ pc = "query"
    /\ numQueries < MaxQueries
    /\ baseline' = Baseline(globalMean, userBias, itemBias, maxItemId,
                          userId, itemId)
    /\ prediction' = Predict(ratingsByUsers, globalMean, userBias, itemBias,
                             maxItemId, topNeighbors, userId, itemId)
    /\ ratingsByUsers' = StoreAfterQuery(ratingsByUsers, topNeighbors, userId)
    /\ userBias' = UserBiasAfterQuery(ratingsByUsers, userBias, topNeighbors,
                                      userId, itemId)
    /\ numQueries' = numQueries + 1
    /\ lastQuery' = <<userId, itemId>>
    /\ UNCHANGED <<pc, globalSum, globalCount, maxUserId, maxItemId, userOrder,
                   itemOrder, globalMean, itemBias, itemToUser, dotAB,
                   magnitudeMap, topNeighbors, candidates, todo, curA>>

---------------------------------------------------------------------------

Next ==
    \/ \E u \in Users, i \in Items, r \in Ratings : ReadRating(u, i, r)
    \/ EndTrain
    \/ InitBiases
    \/ FitBiases
    \/ BuildItemToUser
    \/ ComputeDots
    \/ \E p \in todo : SelectPair(p)
    \/ EndSelect
    \/ \E u \in Users, i \in Items : Query(u, i)

Spec == Init /\ [][Next]_vars

---------------------------------------------------------------------------
(* Vocabulary of the properties *)

Entry(u, s) == [userB |-> u, value |-> s]

\* the ratings retained in the Rating Store
StoreCells == {c \in Users \X Items :
                 c[1] \in DOMAIN ratingsByUsers /\ c[2] \in DOMAIN ratingsByUsers[c[1]]}
StoreSum == SumSet(StoreCells, [c \in StoreCells |-> ratingsByUsers[c[1]][c[2]]])
StoreCount == Cardinality(StoreCells)

\* the item term of a baseline as the specification states it: the fitted
\* bias for every item id of the observed range [0, maxItemId], else 0
ObservedItemBias(itemId) ==
    IF itemId >= 0 /\ itemId <= maxItemId THEN itemBias[itemId] ELSE 0

\* the items of the observed range that both u and v rated
CoRated(u, v) ==
    {i \in 0..maxItemId : <<u, i>> \in StoreCells /\ <<v, i>> \in StoreCells}

FittedResidual(u, i) ==
    Residual(ratingsByUsers, globalMean, userBias, itemBias, u, i)

Fitted == pc \in {"project", "dot", "select", "query"}
Accumulated == pc \in {"select", "query"}
Queried == pc = "query" /\ numQueries > 0

\* the retained neighbours of the queried user that rated the queried item
Voters == {e \in NeighborsOf(topNeighbors, lastQuery[1]) :
             <<e.userB, lastQuery[2]>> \in StoreCells}

---------------------------------------------------------------------------
(* C1 - Neighbor Selector retention: after each insertion the retained set
   of every user holds the greatest similarities seen so far, i.e. no
   candidate that was evicted has a similarity strictly greater than that
   of a retained entry. *)
C1_RetainsGreatest ==
    \A u \in DOMAIN candidates :
        \A e \in candidates[u] \ topNeighbors[u] :
            \A r \in topNeighbors[u] : e.value <= r.value

(* C2 - Predictor baseline: for a query (user, item) the baseline is
   globalMean + userBias[user] (0 if the user is unseen) + itemBias[item]
   for every item id in [0, maxItemId], the item bias being 0 only outside
   that range; the contributing neighbours' baselines follow the same rule,
   so the prediction is the baseline plus the weighted mean of the
   neighbours' residuals against those baselines. *)
C2_BaselineUsesObservedItemBias ==
    Queried =>
        LET u == lastQuery[1]
            i == lastQuery[2]
            term == [e \in Voters |->
                       FMul(ratingsByUsers[e.userB][i]
                              - (globalMean + userBias[e.userB] + ObservedItemBias(i)),
                            e.value)]
            weights == SumSet(Voters, [e \in Voters |-> Abs(e.value)])
        IN /\ baseline = globalMean + UserBiasTerm(userBias, u) + ObservedItemBias(i)
           /\ prediction = IF weights > 0
                           THEN baseline + FDiv(SumSet(Voters, term), weights)
                           ELSE baseline

(* C3 - globalMean is the arithmetic mean of the training ratings, or 3.5 if
   there are none; the sum and count it is derived from are the sum and the
   number of the ratings retained in the Rating Store after ingestion. *)
C3_GlobalMeanOfRetained ==
    /\ pc # "read" => globalSum = StoreSum /\ globalCount = StoreCount
    /\ Fitted => globalMean = IF StoreCount > 0 THEN RDiv(StoreSum, StoreCount)
                              ELSE DEFAULT_MEAN

(* C4 - Symmetry of similarity: every accumulator pair (uA, uB) that step 7
   has processed and whose finalSimilarity is > 0 is registered as the
   candidate (uB, s) of uA and (uA, s) of uB with the same s; and for users
   that each received at most K candidates, uB is retained by uA with value
   s if and only if uA is retained by uB with value s. *)
C4_SymmetricNeighbors ==
    Accumulated =>
        /\ \A p \in DOMAIN dotAB \ todo :
              LET s == FinalSim(dotAB[p], magnitudeMap[p[1]], magnitudeMap[p[2]])
              IN s > 0 =>
                   /\ p[1] \in DOMAIN candidates /\ p[2] \in DOMAIN candidates
                   /\ Entry(p[2], s) \in candidates[p[1]]
                   /\ Entry(p[1], s) \in candidates[p[2]]
        /\ \A uA, uB \in Users :
              LET cand(u) == IF u \in DOMAIN candidates THEN candidates[u] ELSE {}
                  vals == {e.value : e \in cand(uA) \cup cand(uB)}
              IN (Cardinality(cand(uA)) <= K /\ Cardinality(cand(uB)) <= K) =>
                   \A s \in vals :
                       Entry(uB, s) \in NeighborsOf(topNeighbors, uA)
                         <=> Entry(uA, s) \in NeighborsOf(topNeighbors, uB)

\* a processed pair with positive similarity, retained on both sides
C4_Witness ==
    /\ Accumulated
    /\ \E p \in DOMAIN dotAB \ todo :
          LET s == FinalSim(dotAB[p], magnitudeMap[p[1]], magnitudeMap[p[2]])
          IN /\ s > 0
             /\ Cardinality(candidates[p[1]]) <= K
             /\ Cardinality(candidates[p[2]]) <= K
             /\ Entry(p[2], s) \in topNeighbors[p[1]]
             /\ Entry(p[1], s) \in topNeighbors[p[2]]

(* C5 - Top-K bound: once a candidate pair has been processed (push and
   conditional pop), no user's retained neighbour set holds more than K
   entries. *)
C5_TopKBound ==
    \A u \in DOMAIN topNeighbors : Cardinality(topNeighbors[u]) <= K

\* a user that received more than K candidates and retains exactly K
C5_Witness ==
    \E u \in DOMAIN topNeighbors :
        /\ Cardinality(candidates[u]) > K
        /\ Cardinality(topNeighbors[u]) = K

(* C6 - Unseen-user fallback: a query whose user has no training rating
   yields exactly globalMean plus the item's fitted bias if the item id is
   in the observed range [0, maxItemId], else exactly globalMean; and
   whenever no retained neighbour of the user rated the item, the
   prediction is the baseline unchanged. *)
C6_UnseenUserFallback ==
    Queried =>
        /\ lastQuery[1] \notin DOMAIN ratingsByUsers =>
              prediction = globalMean + ObservedItemBias(lastQuery[2])
        /\ Voters = {} => prediction = baseline

(* C7 - Empty-training default: with zero training records globalMean is
   3.5, no bias is non-zero, no neighbour set exists and every query yields
   3.5 exactly. *)
C7_EmptyTrainingDefault ==
    (globalCount = 0 /\ Fitted) =>
        /\ globalMean = DEFAULT_MEAN
        /\ \A u \in DOMAIN userBias : userBias[u] = 0
        /\ \A i \in DOMAIN itemBias : itemBias[i] = 0
        /\ DOMAIN topNeighbors = {}
        /\ Queried => prediction = DEFAULT_MEAN

\* a query answered after an empty training stream
C7_Witness == globalCount = 0 /\ Queried

(* C8 - Determinism: the emitted predictions are a function of the training
   and query streams alone; they do not depend on the order in which the
   rating store is traversed during bias fitting and residual projection,
   nor on the order in which the accumulator is traversed when candidates
   are pushed into the heaps.  Stated against one fixed traversal: users,
   items and pairs in ascending order. *)
RECURSIVE Ascending(_)
Ascending(S) ==
    IF S = {} THEN <<>>
    ELSE LET m == CHOOSE x \in S : \A y \in S : x <= y
         IN <<m>> \o Ascending(S \ {m})

AscendingCells ==
    Traversal(Ascending(DOMAIN ratingsByUsers),
              [u \in DOMAIN ratingsByUsers |-> Ascending(DOMAIN ratingsByUsers[u])])

AscendingBias ==
    FitIters([ub |-> [u \in DOMAIN ratingsByUsers |-> 0],
              ib |-> [i \in 0..maxItemId |-> 0]],
             GlobalMeanOf(globalSum, globalCount), ratingsByUsers,
             AscendingCells, NUM_ITERS)

AscendingLists ==
    [i \in 0..maxItemId |->
        ItemList(ratingsByUsers, GlobalMeanOf(globalSum, globalCount),
                 AscendingBias.ub, AscendingBias.ib, AscendingCells, i)]

RECURSIVE AscendingSelect(_, _, _, _)
AscendingSelect(tc, pairs, dots, mags) ==
    IF pairs = {} THEN tc
    ELSE LET p == CHOOSE x \in pairs : \A y \in pairs :
                      x[1] < y[1] \/ (x[1] = y[1] /\ x[2] <= y[2])
             s == FinalSim(dots[p], mags[p[1]], mags[p[2]])
             next == IF s > 0
                     THEN CHOOSE r \in Register(tc.top, tc.cand, p[1], p[2], s) : TRUE
                     ELSE tc
         IN AscendingSelect(next, pairs \ {p}, dots, mags)

AscendingPrediction(userId, itemId) ==
    LET dots == Dots(EmptyMap, AscendingLists, FirstItem, maxItemId)
        mags == Magnitudes(EmptyMap, AscendingLists, FirstItem, maxItemId)
        tc == AscendingSelect([top |-> EmptyMap, cand |-> EmptyMap],
                              DOMAIN dots, dots, mags)
    IN Predict(ratingsByUsers, GlobalMeanOf(globalSum, globalCount),
               AscendingBias.ub, AscendingBias.ib, maxItemId, tc.top,
               userId, itemId)

C8_OrderIndependentOutput ==
    Queried => prediction = AscendingPrediction(lastQuery[1], lastQuery[2])

(* C9 - Accumulator completeness and canonical keying: after the Similarity
   Engine has run, the accumulator has the key (uA, uB) exactly when
   uA < uB and both rated some item of [0, maxItemId]; the entry's count is
   the number of items both rated and its sum the sum over them of
   residualA x residualB; each user's magnitude is the sum of the squared
   residuals over all the items the user rated. *)
C9_AccumulatorComplete ==
    Accumulated =>
        /\ DOMAIN dotAB = {p \in Users \X Users : p[1] < p[2] /\ CoRated(p[1], p[2]) # {}}
        /\ \A p \in DOMAIN dotAB :
              LET both == CoRated(p[1], p[2])
              IN /\ dotAB[p].count = Cardinality(both)
                 /\ dotAB[p].sum =
                      SumSet(both, [i \in both |->
                          FMul(FittedResidual(p[1], i), FittedResidual(p[2], i))])
        /\ \A u \in DOMAIN ratingsByUsers :
              LET mine == DOMAIN ratingsByUsers[u]
              IN (IF u \in DOMAIN magnitudeMap THEN magnitudeMap[u] ELSE 0) =
                   SumSet(mine, [i \in mine |->
                       FMul(FittedResidual(u, i), FittedResidual(u, i))])

(* C10 - Finalized stages are read-only: once the fitting passes are over,
   globalMean, userBias and itemBias never change, and a query leaves the
   Rating Store, the bias parameters and every retained neighbour set
   unchanged, key sets included. *)
C10_FinalizedReadOnly ==
    [][/\ Fitted => UNCHANGED <<globalMean, userBias, itemBias>>
       /\ pc = "query" => UNCHANGED <<ratingsByUsers, topNeighbors>>]_vars

\* a query for a user one of whose retained neighbours rated the item (the
\* operator[] lookups of the neighbour loop ran) has been answered
C10_Witness == Queried /\ Voters # {}

===========================================================================
